---- MODULE Spec2Model ----
(***************************************************************************)
(* State-machine model of src/main.py (Language Learning Chatbot).         *)
(*                                                                         *)
(* One behaviour step is one run of main() triggered by one user action    *)
(* (a button press, or a rerun with no button pressed).  A widget event of *)
(* the session that arrives while a run is under way is a rerun request:   *)
(* the script runner stops the run at its next access of st.session_state, *)
(* and the step is then the run up to that point.  This holds for every    *)
(* handler: Next (lines 134-137), Start Chatting (lines 148-150), Send    *)
(* (line 166, lines 169-176) and Start Over (clear() of line 185, which    *)
(* removes the keys one at a time).                                        *)
(*                                                                         *)
(* The run of a chat turn blocks in its two LLM calls.  With fast reruns   *)
(* (the default of the script runner) the run of a later event starts      *)
(* while a stopped run still waits in the correction call; when that call  *)
(* returns, the stopped run executes the rest of correct_input (lines      *)
(* 60-71, the INSERT included) and ends at line 174.  `in_flight` holds    *)
(* these runs and LateReturn is the step in which one of them returns.     *)
(*                                                                         *)
(* The session fields are st.session_state, `mistakes` is the rows of the  *)
(* SQLite table "mistakes" in insertion order.  Python strings are TLA+    *)
(* strings; the string functions are computed character by character as    *)
(* Python and the re module compute them.                                  *)
(*                                                                         *)
(* Representation notes:                                                   *)
(*  - the source writes a typographic apostrophe (U+2019) in the scene     *)
(*    texts and in the correction template; the module is ASCII, so it is  *)
(*    written ' here.  No operation of the program inspects it.            *)
(*  - strings are ASCII: str.lower() and str.strip() are modelled on the   *)
(*    128 ASCII characters (no Unicode letters or spaces).                 *)
(*  - the `timestamp` column is written by correct_input but selected by   *)
(*    no query of the program (review_mistakes reads user_input, mistake,  *)
(*    correction), so rows carry id, user_input, mistake, correction.      *)
(***************************************************************************)
EXTENDS Integers, Sequences, FiniteSets, TLC

VARIABLES
    stage,          \* st.session_state.stage
    chat_history,   \* st.session_state.chat_history
    target_lang,    \* st.session_state.target_lang
    native_lang,    \* st.session_state.native_lang
    level,          \* st.session_state.level
    scene,          \* st.session_state.scene
    mistakes,       \* rows of table mistakes, in rowid order
    user_input,     \* the chat text the last run of main() read (None outside Chat)
    form,           \* the Setup form values the last press of "Next" submitted
    llm_log,        \* the chain.run calls of the last run of main(), in order
    last_op,        \* which branch the last run of main() took
    in_flight,      \* turns whose run was stopped while its correction call waits
    probe           \* a function applied on its own: its argument and results

vars == <<stage, chat_history, target_lang, native_lang, level, scene,
          mistakes, user_input, form, llm_log, last_op, in_flight, probe>>

session == <<stage, chat_history, target_lang, native_lang, level, scene>>

----------------------------------------------------------------------------
(* Bounds of the model *)

\* lines the transcript may hold (the banner and the three lines of a turn)
MaxLines == 4
\* rows the mistakes table may hold
MaxRows == 1

----------------------------------------------------------------------------
(* Python values *)

\* Python None is the empty tuple, a set value v is <<v>>
None == <<>>
Some(v) == <<v>>
Val(o) == o[1]
\* truthiness of an optional string: None and "" are falsy
Truthy(o) == o # None /\ Val(o) # ""

----------------------------------------------------------------------------
(* Python str operations *)

Char(s, i) == SubSeq(s, i, i)
Take(s, n) == SubSeq(s, 1, n)
Drop(s, n) == SubSeq(s, n + 1, Len(s))

StartsAt(s, sub, i) ==
    /\ i >= 1
    /\ i + Len(sub) - 1 <= Len(s)
    /\ SubSeq(s, i, i + Len(sub) - 1) = sub

\* str.find from position `from` (1-based), 0 when absent
Find(s, sub, from) ==
    LET hits == {i \in from..(Len(s) - Len(sub) + 1) : StartsAt(s, sub, i)}
    IN  IF hits = {} THEN 0 ELSE CHOOSE i \in hits : \A j \in hits : i <= j

\* `sub in s`
Contains(s, sub) == Find(s, sub, 1) # 0

UpperLetters == "ABCDEFGHIJKLMNOPQRSTUVWXYZ"
LowerLetters == "abcdefghijklmnopqrstuvwxyz"

LowerChar(c) ==
    LET up == {i \in 1..Len(UpperLetters) : Char(UpperLetters, i) = c}
    IN  IF up = {} THEN c ELSE Char(LowerLetters, CHOOSE i \in up : TRUE)

RECURSIVE Lower(_)
\* str.lower() (ASCII letters)
Lower(s) == IF s = "" THEN "" ELSE LowerChar(Char(s, 1)) \o Lower(Drop(s, 1))

\* the ASCII characters str.strip() removes: space, \t, \n, \r, \f and the
\* control characters 0x0B (vertical tab), 0x1C, 0x1D, 0x1E, 0x1F, which have
\* no escape in TLA+ and stand in the last five literals as the characters
\* themselves
Whitespace ==
    {" ", "\t", "\n", "\r", "\f", "", "", "", "", ""}

RECURSIVE LStrip(_)
LStrip(s) ==
    IF s # "" /\ Char(s, 1) \in Whitespace THEN LStrip(Drop(s, 1)) ELSE s

RECURSIVE RStrip(_)
RStrip(s) ==
    IF s # "" /\ Char(s, Len(s)) \in Whitespace
    THEN RStrip(Take(s, Len(s) - 1)) ELSE s

\* str.strip()
Strip(s) == LStrip(RStrip(s))

\* s.split(sep)[0]
SplitPart0(s, sep) ==
    LET i == Find(s, sep, 1) IN IF i = 0 THEN s ELSE Take(s, i - 1)

\* s.split(sep)[1], for s containing sep
SplitPart1(s, sep) ==
    LET i == Find(s, sep, 1)
        rest == Drop(s, i + Len(sep) - 1)
    IN  SplitPart0(rest, sep)

----------------------------------------------------------------------------
(* clean_response *)

ThinkOpen == "<think>"
ThinkClose == "</think>"

RECURSIVE ReSubThink(_)
\* re.sub(r"<think>.*?</think>", "", s, flags=re.DOTALL): leftmost non-greedy
\* matches, removed left to right, the scan resuming after each match
ReSubThink(s) ==
    LET i == Find(s, ThinkOpen, 1)
        j == IF i = 0 THEN 0 ELSE Find(s, ThinkClose, i + Len(ThinkOpen))
    IN  IF i = 0 \/ j = 0 THEN s
        ELSE Take(s, i - 1) \o ReSubThink(Drop(s, j + Len(ThinkClose) - 1))

clean_response(response) == Strip(ReSubThink(response))

----------------------------------------------------------------------------
(* get_scene_options *)

BeginnerScenes ==
    << "You're at a market buying fruit.",
       "You're greeting a neighbor in your new town.",
       "You're asking for directions to a park." >>

IntermediateScenes ==
    << "You're ordering a meal at a restaurant.",
       "You're shopping for clothes in a store.",
       "You're booking a hotel room over the phone." >>

AdvancedScenes ==
    << "You're negotiating a business deal.",
       "You're discussing a news article with a friend.",
       "You're giving a presentation at work." >>

\* A bug get_scene_options could have: the key looked up without lower()
get_scene_options_exact(lvl) ==
    CASE lvl = "beginner"     -> BeginnerScenes
      [] lvl = "intermediate" -> IntermediateScenes
      [] lvl = "advanced"     -> AdvancedScenes
      [] OTHER                -> BeginnerScenes

\* scenes.get(level.lower(), scenes["beginner"])
get_scene_options(lvl) ==
    LET key == Lower(lvl)
    IN  CASE key = "beginner"     -> BeginnerScenes
          [] key = "intermediate" -> IntermediateScenes
          [] key = "advanced"     -> AdvancedScenes
          [] OTHER                -> BeginnerScenes

----------------------------------------------------------------------------
(* The two prompt templates *)

\* generate_response: "Respond to '{input}' in {target_lang} based on this scene: {scene}"
ResponsePrompt(input, target, sc) ==
    "Respond to '" \o input \o "' in " \o target
        \o " based on this scene: " \o sc

\* correct_input: "The user said: '{input}' in {target}. If there's a mistake, ..."
CorrectionPrompt(input, target, native) ==
    "The user said: '" \o input \o "' in " \o target
        \o ". If there's a mistake, correct it and explain in " \o native
        \o ". If correct, say 'Correct!'"

----------------------------------------------------------------------------
(* correct_input: the decision, the extraction and the insert *)

CorrectLiteral == "Correct!"
Marker == "Corrected to:"

\* line 60: if "Correct!" not in response  (response is the raw chain.run text)
MistakeFlagged(response) == ~Contains(response, CorrectLiteral)

\* lines 63-68: "Unknown", or the text between the marker and the next period.
\* split(...)[1] and split(".")[0] always exist when the marker is present,
\* so the IndexError branch of line 67 is never taken.
ExtractCorrection(response) ==
    IF Contains(response, Marker)
    THEN Strip(SplitPart0(SplitPart1(response, Marker), "."))
    ELSE "Unknown"

\* A bug NextId could have: the key given as a fixed value in the INSERT
NextIdFixed(rows) == 1

\* INTEGER PRIMARY KEY with no value given: largest rowid + 1
NextId(rows) ==
    IF rows = <<>> THEN 1
    ELSE 1 + (CHOOSE m \in {rows[i].id : i \in 1..Len(rows)} :
                 \A i \in 1..Len(rows) : rows[i].id <= m)

\* A bug InsertMistake could have: a row with the same content is not added
\* again (INSERT OR IGNORE under a uniqueness constraint)
InsertMistakeIgnoreDup(rows, input, mistake, correction) ==
    IF \E i \in 1..Len(rows) :
           /\ rows[i].user_input = input
           /\ rows[i].mistake = mistake
           /\ rows[i].correction = correction
    THEN rows
    ELSE Append(rows, [id |-> Len(rows) + 1, user_input |-> input,
                       mistake |-> mistake, correction |-> correction])

\* lines 69-71: INSERT INTO mistakes (user_input, mistake, correction, timestamp)
InsertMistake(rows, input, mistake, correction) ==
    Append(rows, [id |-> NextId(rows), user_input |-> input,
                  mistake |-> mistake, correction |-> correction])

\* what a chain.run call does: it returns a text, or it raises
Returned(text) == [ok |-> TRUE, text |-> text]
Raised == [ok |-> FALSE, text |-> ""]

\* A bug correct_input could have: the failed call is swallowed and its empty
\* text is parsed like a response.
correct_input_swallow(rows, input, outcome) ==
    IF MistakeFlagged(outcome.text)
    THEN InsertMistake(rows, input, input, ExtractCorrection(outcome.text))
    ELSE rows

\* the table after correct_input(user_input, ...), whose chain.run call (line 58)
\* had `outcome`: a raise leaves before the insert, a response is parsed
correct_input(rows, input, outcome) ==
    IF ~outcome.ok THEN rows
    ELSE IF MistakeFlagged(outcome.text)
    THEN InsertMistake(rows, input, input, ExtractCorrection(outcome.text))
    ELSE rows

----------------------------------------------------------------------------
(* review_mistakes *)

\* lines 91-92: SELECT user_input, mistake, correction FROM mistakes, then
\* fetchall(): the table scan yields the rows by ascending rowid
FetchAll(rows) ==
    LET n == Len(rows)
        at(k) == CHOOSE i \in 1..n :
                     Cardinality({j \in 1..n : rows[j].id < rows[i].id}) = k - 1
    IN  [k \in 1..n |->
            <<rows[at(k)].user_input, rows[at(k)].mistake, rows[at(k)].correction>>]

Digits == "0123456789"

RECURSIVE IntToStr(_)
\* str(i) for i >= 0, as the f-string of line 98 formats it
IntToStr(i) ==
    IF i < 10 THEN Char(Digits, i + 1)
    ELSE IntToStr(i \div 10) \o Char(Digits, (i % 10) + 1)

\* line 98, for record number i
ReviewLine(i, rec) ==
    IntToStr(i) \o ". You said: '" \o rec[1] \o "' | Mistake: '" \o rec[2]
        \o "' | Correction: '" \o rec[3] \o "'\n"

RECURSIVE ReviewLines(_, _)
\* lines 97-98: the lines of records i.. of recs
ReviewLines(recs, i) ==
    IF i > Len(recs) THEN ""
    ELSE ReviewLine(i, recs[i]) \o ReviewLines(recs, i + 1)

\* lines 90-101: the text the Review page shows
review_mistakes(rows) ==
    LET recs == FetchAll(rows)
    IN  IF recs = <<>> THEN "No mistakes recorded. Great job!"
        ELSE "=== Mistake Review ===\n" \o ReviewLines(recs, 1)
             \o (IF Len(recs) > 2
                 THEN "Focus area: Work on verb conjugation and vocabulary."
                 ELSE "Focus area: You're doing well, keep practicing!")

----------------------------------------------------------------------------
(* The chat handler's pure parts *)

\* line 165: user_input.lower() == "exit"
IsExit(text) == Lower(text) = "exit"

\* A bug TurnLines could have: feedback appended before the bot line
TurnLinesSwapped(input, bot_response, feedback) ==
    << "You: " \o input, "Feedback: " \o feedback, "Bot: " \o bot_response >>

\* lines 174-176: the three lines of a completed turn
TurnLines(input, bot_response, feedback) ==
    << "You: " \o input, "Bot: " \o bot_response, "Feedback: " \o feedback >>

\* line 150
SceneBanner(scene_choice) == "Scene: " \o scene_choice

\* Where a run of main() ends.  A widget event that reaches the session while
\* a run is under way is a rerun request, and Streamlit's script runner stops
\* the running script at its next access of st.session_state (each access is
\* a yield point) to start the next run.  A handler's run therefore ends at
\* the end of main() ("end"), or is stopped before any of its accesses.

\* "Next": stopped before the form is looked at, at an access of lines
\* 108-119 or of the test of line 125 ("before_form"), or at the access of
\* line 134, 135, 136 or 137
SetupStops ==
    {"before_form", "before_target", "before_native", "before_level",
     "before_stage", "end"}

\* how many of lines 134-137 have run when the run ends at `stop`
FieldsRun(stop) ==
    CASE stop = "before_form"   -> 0
      [] stop = "before_target" -> 0
      [] stop = "before_native" -> 1
      [] stop = "before_level"  -> 2
      [] stop = "before_stage"  -> 3
      [] stop = "end"           -> 4

\* "Start Chatting": stopped at the access of line 148, 149 or 150
SceneStops == {"before_scene", "before_stage", "before_banner", "end"}

\* how many of lines 148-150 have run when the run ends at `stop`
SceneLinesRun(stop) ==
    CASE stop = "before_scene"  -> 0
      [] stop = "before_stage"  -> 1
      [] stop = "before_banner" -> 2
      [] stop = "end"           -> 3

\* "Send": with "exit" typed the run is stopped at the access of line 166
\* ("before_exit"); a turn's run is stopped at the access of line 169 before
\* any call ("before_response"), of line 170 ("before_correction"), of line
\* 174 ("before_you"), 175 ("before_bot") or 176 ("before_feedback"), or ends
\* at st.rerun() of line 177 ("end").  The script blocks in the two chain.run
\* calls, and the next run does not wait for the stopped one
\* (runner.fastReruns): a run stopped while its correction call waits
\* ("in_correction") goes on in the background until the call returns and
\* the access of line 174 is reached.
TurnStops ==
    {"before_exit", "before_response", "before_correction", "in_correction",
     "before_you", "before_bot", "before_feedback", "end"}

\* how many of lines 174-176 have run when the run ends at `stop`
LinesRun(stop) ==
    CASE stop = "before_you"      -> 0
      [] stop = "before_bot"      -> 1
      [] stop = "before_feedback" -> 2
      [] stop = "end"             -> 3

\* the keys of st.session_state, lines 108-119
SessionKeys ==
    {"stage", "chat_history", "target_lang", "native_lang", "level", "scene"}

\* "Start Over": st.session_state is a MutableMapping that defines no clear()
\* of its own, so clear() of line 185 is the mixin's loop of popitem(): it
\* takes the first key of an iteration over the session state, reads it and
\* deletes it, and the read and the delete are each an access of
\* st.session_state.  The keys are iterated as a set, so the program does not
\* fix their order.  The run is stopped with any set of keys removed (none,
\* when it is stopped at the first access), or ends at st.rerun() of line 186
\* with all of them removed.
ClearStops == SUBSET SessionKeys

----------------------------------------------------------------------------
(* What the user and the LLM may supply *)

\* st.text_input values of the Setup form
TargetInputs == {"", "Spanish"}
NativeInputs == {"", "English"}
\* st.selectbox options, line 130
LevelOptions == {"Beginner", "Intermediate", "Advanced"}

\* texts typed in the chat box
ChatInputs == {"", " ", "exit", "EXIT", "Hola"}

\* the chat box where sessions and turns are many: no blank text
PlainChatInputs == {"", "EXIT", "Hola"}
LongChatInputs == {"", "exit", "Hola"}

\* raw texts of the response-generation call (the reply ends with a space and
\* a vertical tab, 0x0B)
BotReplies == {"<think>greet</think> Hola! "}

\* raw texts of the correction call
CorrectionReplies ==
    { "Correct!",
      "<think>Correct! or not?</think>Mistake. Corrected to: Hola. Bye",
      "Corr<think>x</think>ect!",
      "Wrong verb",
      "<think>Corrected to: a.</think>Mistake. Corrected to: b. Why",
      "Mistake found. Corrected to: Hola, como estas?. Explanation..." }

GenOutcomes == {Raised} \cup {Returned(t) : t \in BotReplies}
CorrOutcomes == {Raised} \cup {Returned(t) : t \in CorrectionReplies}

\* the Setup form and the correction call where every handler may be stopped
\* anywhere: one level of line 130, one reply that is flagged and one that is
\* not
PlainLevels == {"Advanced"}
PlainCorrOutcomes == {Raised, Returned("Correct!"), Returned("Wrong verb")}

\* the correction call where sessions and turns are many: the replies without
\* reasoning markup
LongCorrOutcomes ==
    { Raised,
      Returned("Correct!"),
      Returned("Wrong verb"),
      Returned("Mistake found. Corrected to: Hola, como estas?. Explanation...") }

Call(prompt, outcome) == [prompt |-> prompt, ok |-> outcome.ok, text |-> outcome.text]

----------------------------------------------------------------------------
(* Initial state: lines 108-119 on a fresh session, table created empty *)

Init ==
    /\ stage = "setup"
    /\ chat_history = <<>>
    /\ target_lang = None
    /\ native_lang = None
    /\ level = None
    /\ scene = None
    /\ mistakes = <<>>
    /\ user_input = None
    /\ form = None
    /\ llm_log = <<>>
    /\ last_op = "init"
    /\ in_flight = <<>>
    /\ probe = None

----------------------------------------------------------------------------
(* Actions: one run of main() each *)

\* main() runs with no button pressed (any other widget interaction)
Rerun ==
    /\ last_op' = "rerun"
    /\ UNCHANGED <<in_flight, probe>>
    /\ form' = None
    /\ user_input' = None
    /\ llm_log' = <<>>
    /\ UNCHANGED <<session, mistakes>>

\* A bug SetupNext could have: the scene step skipped, the first scene taken
SetupNextSkip(t, n, l) ==
    /\ stage = "setup"
    /\ IF t # "" /\ n # "" /\ l # ""
       THEN /\ target_lang' = Some(t)
            /\ native_lang' = Some(n)
            /\ level' = Some(l)
            /\ scene' = Some(get_scene_options(l)[1])
            /\ chat_history' = Append(chat_history, SceneBanner(get_scene_options(l)[1]))
            /\ stage' = "chat"
            /\ last_op' = "setup_ok"
       ELSE /\ last_op' = "setup_error"
            /\ UNCHANGED <<target_lang, native_lang, level, stage, scene, chat_history>>
    /\ UNCHANGED <<in_flight, probe>>
    /\ form' = <<t, n, l>>
    /\ user_input' = None
    /\ llm_log' = <<>>
    /\ UNCHANGED mistakes

\* lines 125-139: "Next" pressed on the Setup form.  The four assignments of
\* lines 134-137 are four accesses of st.session_state; the run ends after
\* the last (stop "end") or is stopped at one of SetupStops in `stops`.  With
\* a field left empty the run makes no access after line 125: it ends with
\* st.error of line 139, or is stopped before the form is looked at and
\* shows no error.
SetupNextWith(t, n, l, stops) ==
    /\ stage = "setup"
    /\ IF t # "" /\ n # "" /\ l # ""
       THEN \E stop \in stops :
            /\ target_lang' = IF FieldsRun(stop) >= FieldsRun("before_native")
                              THEN Some(t) ELSE target_lang
            /\ native_lang' = IF FieldsRun(stop) >= FieldsRun("before_level")
                              THEN Some(n) ELSE native_lang
            /\ level' = IF FieldsRun(stop) >= FieldsRun("before_stage")
                        THEN Some(l) ELSE level
            /\ stage' = IF stop = "end" THEN "scene_selection" ELSE stage
            /\ last_op' = IF stop = "end" THEN "setup_ok" ELSE "setup_cut"
       ELSE \E stop \in stops \cap {"before_form", "end"} :
            /\ last_op' = IF stop = "end" THEN "setup_error" ELSE "setup_cut"
            /\ UNCHANGED <<target_lang, native_lang, level, stage>>
    /\ UNCHANGED <<in_flight, probe>>
    /\ form' = <<t, n, l>>
    /\ user_input' = None
    /\ llm_log' = <<>>
    /\ UNCHANGED <<chat_history, scene, mistakes>>

SetupNext(t, n, l) == SetupNextWith(t, n, l, SetupStops)

\* lines 142-150: "Start Chatting" pressed with option number k selected.
\* Lines 148-150 are three accesses of st.session_state; the run ends after
\* the last (stop "end") or is stopped at one of SceneStops in `stops`.
StartChattingWith(k, stops) ==
    /\ stage = "scene_selection"
    /\ \E stop \in stops :
       LET scene_options == get_scene_options(Val(level))
           scene_choice == scene_options[k]
       IN  /\ scene' = IF SceneLinesRun(stop) >= SceneLinesRun("before_stage")
                       THEN Some(scene_choice) ELSE scene
           /\ stage' = IF SceneLinesRun(stop) >= SceneLinesRun("before_banner")
                       THEN "chat" ELSE stage
           /\ chat_history' = IF stop = "end"
                              THEN Append(chat_history, SceneBanner(scene_choice))
                              ELSE chat_history
           /\ last_op' = IF stop = "end" THEN "scene_ok" ELSE "scene_cut"
    /\ UNCHANGED <<in_flight, probe>>
    /\ form' = None
    /\ user_input' = None
    /\ llm_log' = <<>>
    /\ UNCHANGED <<target_lang, native_lang, level, mistakes>>

StartChatting(k) == StartChattingWith(k, SceneStops)

\* lines 153-177: "Send" pressed with `text` in the chat box.  The two
\* chain.run calls are made one after the other; each returns a text or raises,
\* and an exception ends main() where it is raised.  A rerun request that
\* arrived during a call ends the run at the next access of st.session_state:
\* at one of TurnStops.  gens and corrs are what the two calls may do and
\* stops where the run may end.
SendWith(text, gens, corrs, stops) ==
    /\ stage = "chat"
    /\ user_input' = Some(text)
    /\ UNCHANGED probe
    /\ form' = None
    /\ IF text = ""
       THEN \* line 164: falsy input, nothing happens
            /\ last_op' = "send_empty"
            /\ llm_log' = <<>>
            /\ UNCHANGED <<session, mistakes, in_flight>>
       ELSE IF IsExit(text)
       THEN \/ \* line 166
               /\ "end" \in stops
               /\ stage' = "review"
               /\ last_op' = "exit"
               /\ llm_log' = <<>>
               /\ UNCHANGED <<chat_history, target_lang, native_lang, level,
                              scene, mistakes, in_flight>>
            \/ \* the run is stopped at line 166
               /\ "before_exit" \in stops
               /\ last_op' = "exit_cut"
               /\ llm_log' = <<>>
               /\ UNCHANGED <<session, mistakes, in_flight>>
       ELSE \/ \* the run is stopped at line 169, no call made
               /\ "before_response" \in stops
               /\ last_op' = "turn_cut"
               /\ llm_log' = <<>>
               /\ UNCHANGED <<session, mistakes, in_flight>>
            \/ \E gen \in gens :
               LET genCall ==
                       Call(ResponsePrompt(text, Val(target_lang), Val(scene)), gen)
               IN  IF ~gen.ok
                   THEN \* line 85 raises
                        /\ last_op' = "turn_failed"
                        /\ llm_log' = <<genCall>>
                        /\ UNCHANGED <<session, mistakes, in_flight>>
                   ELSE \/ \* the run is stopped at line 170, the response call made
                           /\ "before_correction" \in stops
                           /\ last_op' = "turn_cut"
                           /\ llm_log' = <<genCall>>
                           /\ UNCHANGED <<session, mistakes, in_flight>>
                        \/ \* the run is stopped while the correction call waits
                           /\ "in_correction" \in stops
                           /\ in_flight' = Append(in_flight,
                                  [input |-> text, target |-> Val(target_lang),
                                   native |-> Val(native_lang)])
                           /\ last_op' = "turn_cut"
                           /\ llm_log' = <<genCall>>
                           /\ UNCHANGED <<session, mistakes>>
                        \/ \E corr \in corrs :
                           LET corrCall ==
                                   Call(CorrectionPrompt(text, Val(target_lang),
                                                         Val(native_lang)), corr)
                               bot_response == clean_response(gen.text)
                               feedback == clean_response(corr.text)
                               rows == correct_input(mistakes, text, corr)
                           IN  IF ~corr.ok
                               THEN \* line 58 raises: correct_input does not return
                                    /\ mistakes' = rows
                                    /\ last_op' = "turn_failed"
                                    /\ llm_log' = <<genCall, corrCall>>
                                    /\ UNCHANGED <<session, in_flight>>
                               ELSE \E stop \in stops \cap {"before_you", "before_bot",
                                                             "before_feedback", "end"} :
                                    LET lines ==
                                            SubSeq(TurnLines(text, bot_response, feedback),
                                                   1, LinesRun(stop))
                                    IN  /\ mistakes' = rows
                                        /\ chat_history' = chat_history \o lines
                                        /\ last_op' =
                                               IF stop = "end" THEN "turn" ELSE "turn_cut"
                                        /\ llm_log' = <<genCall, corrCall>>
                                        /\ UNCHANGED <<stage, target_lang, native_lang,
                                                       level, scene, in_flight>>

\* lines 58-71 of a run stopped while its correction call waited: the call
\* returns or raises, correct_input goes on to its INSERT (no access of
\* st.session_state up to line 171), and the run ends at the access of line 174
LateReturnWith(corrs) ==
    \E i \in 1..Len(in_flight), corr \in corrs :
        LET run == in_flight[i]
        IN  /\ mistakes' = correct_input(mistakes, run.input, corr)
            /\ in_flight' = SubSeq(in_flight, 1, i - 1)
                                \o SubSeq(in_flight, i + 1, Len(in_flight))
            /\ user_input' = Some(run.input)
            /\ llm_log' =
                   <<Call(CorrectionPrompt(run.input, run.target, run.native), corr)>>
            /\ last_op' = "late_return"
            /\ form' = None
            /\ UNCHANGED <<session, probe>>

LateReturn == LateReturnWith(CorrOutcomes)

Send(text) == SendWith(text, GenOutcomes, CorrOutcomes, TurnStops)

\* A bug StartOver could have: the session state not cleared, so that the
\* rerun finds the stage still at review
StartOverStays ==
    /\ stage = "review"
    /\ last_op' = "reset"
    /\ UNCHANGED <<in_flight, probe>>
    /\ form' = None
    /\ user_input' = None
    /\ llm_log' = <<>>
    /\ UNCHANGED <<session, mistakes>>

\* lines 180-186: "Start Over" pressed.  clear() has removed the keys of
\* `cleared` when the run ends (one of `stops`); lines 108-119 of the run that
\* follows give every removed key its initial value.
StartOverWith(stops) ==
    /\ stage = "review"
    /\ \E cleared \in stops :
       /\ stage' = IF "stage" \in cleared THEN "setup" ELSE stage
       /\ chat_history' = IF "chat_history" \in cleared THEN <<>> ELSE chat_history
       /\ target_lang' = IF "target_lang" \in cleared THEN None ELSE target_lang
       /\ native_lang' = IF "native_lang" \in cleared THEN None ELSE native_lang
       /\ level' = IF "level" \in cleared THEN None ELSE level
       /\ scene' = IF "scene" \in cleared THEN None ELSE scene
       /\ last_op' = IF cleared = SessionKeys THEN "reset" ELSE "reset_cut"
    /\ UNCHANGED <<in_flight, probe>>
    /\ form' = None
    /\ user_input' = None
    /\ llm_log' = <<>>
    /\ UNCHANGED mistakes

StartOver == StartOverWith(ClearStops)

\* Every handler with every stop: the form with one level, every scene of
\* it, the chat texts without the blank one and two correction replies (the
\* levels are in SpecLevels and SpecLong, the replies in SpecReplies).  The
\* handlers have no bound; the sessions are followed while the transcript and
\* the table are within the bounds: Start Chatting while the banner and the
\* three lines of a turn fit in MaxLines lines, a turn while its three lines
\* fit and the table, with the rows the runs in flight may add, holds fewer
\* than MaxRows rows.
Next ==
    \/ Rerun
    \/ \E t \in TargetInputs, n \in NativeInputs, l \in PlainLevels : SetupNext(t, n, l)
    \/ /\ Len(chat_history) + 1 + LinesRun("end") <= MaxLines
       /\ \E k \in 1..3 : StartChatting(k)
    \/ \E text \in PlainChatInputs :
           /\ (text # "" /\ ~IsExit(text)) =>
                  /\ Len(chat_history) + LinesRun("end") <= MaxLines
                  /\ Len(mistakes) + Len(in_flight) < MaxRows
           /\ SendWith(text, GenOutcomes, PlainCorrOutcomes, TurnStops)
    \/ LateReturnWith(PlainCorrOutcomes)
    \/ StartOver

Spec == Init /\ [][Next]_vars

----------------------------------------------------------------------------
(* Every correction reply: the same program with one choice of language,   *)
(* level and scene, the correction call returning any of CorrectionReplies *)

NextReplies ==
    \/ Rerun
    \/ SetupNextWith("Spanish", "English", "Beginner", {"end"})
    \/ StartChattingWith(1, {"end"})
    \/ \E text \in ChatInputs :
           /\ (text # "" /\ ~IsExit(text)) =>
                  /\ Len(chat_history) + LinesRun("end") <= MaxLines
                  /\ Len(mistakes) + Len(in_flight) < MaxRows
           /\ Send(text)
    \/ LateReturn
    \/ StartOverWith({SessionKeys})

SpecReplies == Init /\ [][NextReplies]_vars

----------------------------------------------------------------------------
(* Longer sessions: the same program with fewer choices for the user and   *)
(* the LLM, so that several turns per session and several rows are reached *)

\* lines the transcript may hold (the banner and three turns)
LongMaxLines == 10
\* rows the mistakes table may hold
LongMaxRows == 3

\* the run of a turn ends at line 177 or is stopped up to line 174: the
\* stops that leave no part of a turn in the transcript
LongStops == {"before_correction", "in_correction", "before_you", "end"}

NextLong ==
    \/ Rerun
    \/ \E t \in TargetInputs, n \in NativeInputs :
           SetupNextWith(t, n, "Beginner", {"end"})
    \/ \E k \in 1..3 : StartChattingWith(k, {"end"})
    \/ \E text \in LongChatInputs :
           /\ (text # "" /\ ~IsExit(text)) =>
                  /\ Len(chat_history) + LinesRun("end") <= LongMaxLines
                  /\ Len(mistakes) + Len(in_flight) < LongMaxRows
           /\ SendWith(text, GenOutcomes, LongCorrOutcomes, LongStops)
    \/ LateReturnWith(LongCorrOutcomes)
    \/ StartOverWith({SessionKeys})

SpecLong == Init /\ [][NextLong]_vars

----------------------------------------------------------------------------
(* LLM replies with arbitrary reasoning markup: the same program, one      *)
(* session and one turn, the reply any text built from delimiter pieces    *)

\* pieces a reply is built from
MarkupTokens == {"<think>", "</think>", "<think", ">", "x", " "}
\* pieces per reply
MaxTokens == 5

RECURSIVE TokenStrings(_)
\* the texts of at most n pieces
TokenStrings(n) ==
    IF n = 0 THEN {""}
    ELSE LET shorter == TokenStrings(n - 1)
         IN  shorter \cup {p \o t : p \in shorter, t \in MarkupTokens}

MarkupGenOutcomes == {Returned(t) : t \in TokenStrings(MaxTokens)}

NextMarkup ==
    \/ SetupNextWith("Spanish", "English", "Beginner", {"end"})
    \/ StartChattingWith(1, {"end"})
    \/ /\ Len(chat_history) + LinesRun("end") <= MaxLines
       /\ SendWith("Hola", MarkupGenOutcomes, {Returned("Correct!")}, {"end"})

SpecMarkup == Init /\ [][NextMarkup]_vars

----------------------------------------------------------------------------
(* get_scene_options on its own, applied to level texts of any spelling.   *)
(* main() passes it one of the three options of line 130 only, so the      *)
(* texts are drawn into `probe` and the session is left in its initial     *)
(* state.                                                                  *)

LevelTexts ==
    { "Beginner", "beginner", "BEGINNER", "bEGINNER", "BeGiNnEr", "beginneR",
      "Intermediate", "intermediate", "INTERMEDIATE", "iNTERMEDIATE",
      "InTeRmEdIaTe", "intermediatE",
      "Advanced", "advanced", "ADVANCED", "aDVANCED", "AdVaNcEd", "advanceD",
      "", " ", "Expert", "expert", "Novice", "Beginners", "Begin",
      " beginner", "advanced ", "Inter mediate", "Advance", "A1", "C2",
      "beginner.", "Intermediate!", "ADV" }

InitLevels ==
    /\ stage = "setup"
    /\ chat_history = <<>>
    /\ target_lang = None
    /\ native_lang = None
    /\ level = None
    /\ scene = None
    /\ mistakes = <<>>
    /\ user_input = None
    /\ form = None
    /\ llm_log = <<>>
    /\ last_op = "init"
    /\ in_flight = <<>>
    /\ \E l \in LevelTexts : probe = [level |-> l, options |-> None, choice |-> None]

\* line 144: scene_options = get_scene_options(level)
SceneOptionsOf ==
    /\ probe.options = None
    /\ probe' = [probe EXCEPT !.options = Some(get_scene_options(probe.level))]
    /\ UNCHANGED <<session, mistakes, user_input, form, llm_log, last_op,
                   in_flight>>

\* line 145: the selectbox over scene_options returns its option number k
SelectScene(k) ==
    /\ probe.options # None
    /\ probe.choice = None
    /\ k \in 1..Len(Val(probe.options))
    /\ probe' = [probe EXCEPT !.choice = Some(Val(probe.options)[k])]
    /\ UNCHANGED <<session, mistakes, user_input, form, llm_log, last_op,
                   in_flight>>

NextLevels ==
    \/ SceneOptionsOf
    \/ \E k \in 1..Len(BeginnerScenes) : SelectScene(k)

SpecLevels == InitLevels /\ [][NextLevels]_vars

----------------------------------------------------------------------------
(* Vocabulary of the properties *)

\* "non-empty" for a session field: set, and not the empty string
NonEmpty(o) == Truthy(o)

\* this step is the late return of the correction call of a stopped run
LateReturned == last_op' = "late_return"

\* this step is main() handling a press of Send in Chat
SendPressed == stage = "chat" /\ user_input' # None /\ ~LateReturned
SentText == Val(user_input')

\* this step is a chat turn both of whose LLM calls returned
CorrectionReturned ==
    /\ SendPressed
    /\ Len(llm_log') = 2
    /\ llm_log'[1].ok
    /\ llm_log'[2].ok

\* this step is a chat turn whose run was stopped by a rerun request
TurnStopped == SendPressed /\ last_op' = "turn_cut"

\* this step is a completed chat turn: both calls returned and the run went
\* on to its end at line 177
TurnCompleted == CorrectionReturned /\ ~TurnStopped

\* this step is a chat turn one of whose LLM calls raised
TurnFailed ==
    /\ SendPressed
    /\ \E i \in 1..Len(llm_log') : ~llm_log'[i].ok

\* the raw texts the two calls of the turn returned, and their cleaned forms
RawReply == llm_log'[1].text
RawCorrection == llm_log'[Len(llm_log')].text
CleanedReply == clean_response(RawReply)
CleanedCorrection == clean_response(RawCorrection)

\* this step wrote rows to the mistakes table
RowsWritten == Len(mistakes') - Len(mistakes)
NewRow == mistakes'[Len(mistakes')]

ThreeLinesAppended ==
    chat_history' = chat_history \o
        << "You: " \o SentText, "Bot: " \o CleanedReply,
           "Feedback: " \o CleanedCorrection >>

\* the input is one the guard rule lets through: not blank
InputNotBlank == Strip(SentText) # ""

\* the text after the first `sep` of s
AfterFirst(s, sep) == Drop(s, Find(s, sep, 1) + Len(sep) - 1)
\* the text of s before its first period
UpToPeriod(s) == IF Find(s, ".", 1) = 0 THEN s ELSE Take(s, Find(s, ".", 1) - 1)

----------------------------------------------------------------------------
(* C1 *)

C1_Step ==
    stage' # stage =>
        \/ /\ stage = "setup" /\ stage' = "scene_selection"
           /\ NonEmpty(target_lang') /\ NonEmpty(native_lang') /\ NonEmpty(level')
        \/ stage = "scene_selection" /\ stage' = "chat"
        \/ /\ stage = "chat" /\ stage' = "review"
           /\ SendPressed /\ Lower(SentText) = "exit"
        \/ stage = "review" /\ stage' = "setup"

\* C1: the session starts in Setup, and every change of stage is one of
\* Setup -> SceneSelection (all three fields non-empty), SceneSelection -> Chat,
\* Chat -> Review (chat input "exit" in any case), Review -> Setup.
C1_StageTransitions == stage = "setup" /\ [][C1_Step]_vars

\* a session went round the whole cycle and is in Setup again
C1_Witness == stage = "setup" /\ last_op = "reset"

----------------------------------------------------------------------------
(* C2 *)

\* C2: scene is non-empty only in Chat or Review, and outside Setup the target
\* language, native language and level are all non-empty.
C2_FieldsInvariant ==
    /\ NonEmpty(scene) => stage \in {"chat", "review"}
    /\ stage # "setup" =>
           NonEmpty(target_lang) /\ NonEmpty(native_lang) /\ NonEmpty(level)


----------------------------------------------------------------------------
(* C3 *)

\* C3: Send with an empty or whitespace-only input is a no-op: stage,
\* transcript and table unchanged and no LLM call made.
C3_BlankSendIsNoOp ==
    [][(SendPressed /\ Strip(SentText) = "") =>
          /\ stage' = "chat"
          /\ chat_history' = chat_history
          /\ mistakes' = mistakes
          /\ llm_log' = <<>>]_vars

----------------------------------------------------------------------------
(* C4 *)

C4_ExitStep ==
    (SendPressed /\ Lower(SentText) = "exit") =>
        /\ stage' = "review"
        /\ chat_history' = chat_history
        /\ mistakes' = mistakes
        /\ llm_log' = <<>>

C4_NoTurnOnExitOrEmpty ==
    llm_log # <<>> => Val(user_input) # "" /\ Lower(Val(user_input)) # "exit"

\* C4: sending "exit" in any letter case sets the stage to Review with the
\* transcript and the table unchanged and no LLM call; no LLM call is ever
\* made for an empty input or for "exit" in any case.
C4_ExitEndsChat == [][C4_ExitStep]_vars /\ []C4_NoTurnOnExitOrEmpty

----------------------------------------------------------------------------
(* C5 *)

\* C5: every completed turn keeps the stage at Chat and appends exactly the
\* user line, the bot line with the cleaned reply and the feedback line with
\* the cleaned correction response, in that order, whether or not a row was
\* written.
C5_TurnAppendsThreeLines ==
    [][TurnCompleted => stage' = "chat" /\ ThreeLinesAppended]_vars

\* a turn whose feedback reads "Correct!" and that wrote no row
C5_Witness ==
    /\ last_op = "turn"
    /\ stage = "chat"
    /\ mistakes = <<>>
    /\ chat_history =
           << "Scene: You're negotiating a business deal.", "You: Hola",
              "Bot: Hola!", "Feedback: Correct!" >>

----------------------------------------------------------------------------
(* C6 *)

\* C6: if the cleaned correction response contains "Correct!", the turn
\* writes no row.  (Stated for the turns with a non-blank input, so that a
\* violation does not rest on the blank-input turns of C3.)
C6_CorrectNeverLogged ==
    [][(TurnCompleted /\ InputNotBlank /\ Contains(CleanedCorrection, CorrectLiteral)) =>
          mistakes' = mistakes]_vars

----------------------------------------------------------------------------
(* C7 *)

\* C7: if the cleaned correction response does not contain "Correct!", the
\* turn writes exactly one row, whose user_input and mistake are the input.
\* (Stated for the turns with a non-blank input, as C6.)
C7_MistakeLoggedOnce ==
    [][(TurnCompleted /\ InputNotBlank /\ ~Contains(CleanedCorrection, CorrectLiteral)) =>
          /\ RowsWritten = 1
          /\ NewRow.user_input = SentText
          /\ NewRow.mistake = SentText]_vars

----------------------------------------------------------------------------
(* C8 *)

\* C8: a row written for a correction response without "Corrected to:" has
\* the correction "Parsing error - check LLM output.", and the turn completes.
\* (Stated for the completed turns with a non-blank input whose response lacks
\* the marker raw and cleaned and whose cleaned response lacks "Correct!", so
\* that a violation rests on none of C3, C6 and C17.)
C8_SentinelAsStated ==
    [][(/\ TurnCompleted /\ InputNotBlank /\ RowsWritten > 0
        /\ ~Contains(RawCorrection, Marker)
        /\ ~Contains(CleanedCorrection, Marker)
        /\ ~Contains(CleanedCorrection, CorrectLiteral)) =>
          /\ NewRow.correction = "Parsing error - check LLM output."
          /\ stage' = "chat"
          /\ ThreeLinesAppended]_vars

----------------------------------------------------------------------------
(* C9 *)

\* C9: a row written for a correction response containing "Corrected to:" has
\* as correction the text of the cleaned response after the first marker, up
\* to the first period after it, trimmed.  (Stated for the turns with a
\* non-blank input, as C6.)
C9_CorrectionExtracted ==
    [][(TurnCompleted /\ InputNotBlank /\ RowsWritten > 0 /\ Contains(CleanedCorrection, Marker)) =>
          NewRow.correction =
              Strip(UpToPeriod(AfterFirst(CleanedCorrection, Marker)))]_vars

----------------------------------------------------------------------------
(* C10 *)

\* C10: if either LLM call of a turn fails, nothing changes: no line is
\* appended, no row is written, the stage stays Chat, and Send is accepted
\* again.
C10_FailedTurnNoEffect ==
    [][TurnFailed =>
          /\ chat_history' = chat_history
          /\ mistakes' = mistakes
          /\ stage' = "chat"
          /\ UNCHANGED <<target_lang, native_lang, level, scene>>]_vars

\* the correction call raised after the response call had returned
C10_Witness ==
    /\ last_op = "turn_failed"
    /\ Len(llm_log) = 2
    /\ llm_log[1].ok
    /\ ~llm_log[2].ok
    /\ stage = "chat"
    /\ Len(chat_history) = 1
    /\ mistakes = <<>>

----------------------------------------------------------------------------
(* C11 *)

\* this step is main() handling a press of Start Over in Review
ResetPressed == stage = "review" /\ last_op' \in {"reset", "reset_cut"}

\* C11: reset from Review sets the stage to Setup, empties the transcript and
\* the target-language, native-language, level and scene fields, and leaves
\* the table as it was: the same rows in the same order, and the same Review
\* text for them.
C11_ResetKeepsStore ==
    [][ResetPressed =>
          /\ stage' = "setup"
          /\ chat_history' = <<>>
          /\ target_lang' = None /\ native_lang' = None
          /\ level' = None /\ scene' = None
          /\ mistakes' = mistakes
          /\ FetchAll(mistakes') = FetchAll(mistakes)
          /\ review_mistakes(mistakes') = review_mistakes(mistakes)]_vars

----------------------------------------------------------------------------
(* C12 *)

\* this step is main() handling a press of Next on the Setup form
SetupPressed == stage = "setup" /\ form' # None

\* C12: submitting Setup with the target or the native language empty changes
\* nothing and surfaces the validation error: the stage stays Setup, the four
\* fields and the transcript keep the values they had, the table is as it
\* was, and the error of line 139 is shown.
C12_EmptySetupNoChange ==
    [][(SetupPressed /\ (form'[1] = "" \/ form'[2] = "")) =>
          /\ stage' = "setup"
          /\ target_lang' = target_lang /\ native_lang' = native_lang
          /\ level' = level /\ scene' = scene
          /\ chat_history' = chat_history
          /\ mistakes' = mistakes
          /\ in_flight' = in_flight
          /\ last_op' = "setup_error"]_vars

----------------------------------------------------------------------------
(* C13 *)

\* this step executed the INSERT of line 69
InsertExecuted ==
    /\ CorrectionReturned \/ (LateReturned /\ llm_log'[1].ok)
    /\ MistakeFlagged(RawCorrection)
\* the values line 70 passes to it
InsertedValues == <<SentText, SentText, ExtractCorrection(RawCorrection)>>

\* C13: every append adds exactly one record at the end of what listAll
\* returns, with the values that were inserted, also when an identical record
\* is there already; nothing else changes what listAll returns.  So after N
\* appends listAll returns the N inserted records in insertion order.
C13_StoreRoundTrip ==
    [][IF InsertExecuted
       THEN FetchAll(mistakes') = Append(FetchAll(mistakes), InsertedValues)
       ELSE FetchAll(mistakes') = FetchAll(mistakes)]_vars

\* three appends, the first and the third with identical values
C13_Witness ==
    FetchAll(mistakes) =
        << <<"Hola", "Hola", "Unknown">>,
           <<"Hola", "Hola", "Hola, como estas?">>,
           <<"Hola", "Hola", "Unknown">> >>

----------------------------------------------------------------------------
(* C16 *)

C16_Step ==
    /\ Len(mistakes') >= Len(mistakes)
    /\ SubSeq(mistakes', 1, Len(mistakes)) = mistakes
    /\ mistakes' # mistakes =>
           /\ CorrectionReturned \/ LateReturned
           /\ SentText # "" /\ Lower(SentText) # "exit"
           /\ Len(mistakes') = Len(mistakes) + 1

C16_Ids ==
    \A i, j \in 1..Len(mistakes) : i < j => mistakes[i].id < mistakes[j].id

\* C16: the table is append-only: existing rows are never changed or removed,
\* a row is added only by the correction step of a non-exit chat turn, when
\* its call has returned (one row at a time),
\* and the ids are unique and strictly increasing in insertion order.
C16_AppendOnly == [][C16_Step]_vars /\ []C16_Ids

\* three rows written over two sessions, seen from Review
C16_Witness ==
    /\ stage = "review"
    /\ Len(mistakes) = 3
    /\ mistakes[3].id = 3
    /\ Len(chat_history) = 4

----------------------------------------------------------------------------
(* C20 *)

IsPrefix(a, b) == Len(a) <= Len(b) /\ SubSeq(b, 1, Len(a)) = a

\* this step is main() handling a press of Start Chatting
SceneSubmitted == stage = "scene_selection" /\ stage' = "chat"

C20_Shape ==
    /\ stage \in {"setup", "scene_selection"} => chat_history = <<>>
    /\ stage \in {"chat", "review"} =>
           /\ chat_history # <<>>
           /\ chat_history[1] = "Scene: " \o Val(scene)
           /\ Len(chat_history) % 3 = 1

C20_Step ==
    /\ SceneSubmitted => Len(chat_history') = 1
    /\ TurnCompleted => Len(chat_history') = Len(chat_history) + 3
    /\ ~ResetPressed => IsPrefix(chat_history, chat_history')
    /\ ~(SceneSubmitted \/ TurnCompleted \/ ResetPressed) =>
           chat_history' = chat_history
    /\ C20_Shape'

\* C20: the transcript is empty in Setup and SceneSelection; in Chat and Review
\* its first line is the banner of the current scene and its length is 1 + 3k
\* for k the turns completed since the scene submit (1 after the submit, 3
\* more with each completed turn, unchanged otherwise); until the
\* reset it only grows by appending.  (Stated for the steps from a transcript
\* of that shape that are not a Send of a blank input, so that a violation
\* does not rest on the blank-input turns of C3.)
C20_TranscriptShape ==
    /\ C20_Shape
    /\ [][(C20_Shape /\ (SendPressed => InputNotBlank)) => C20_Step]_vars

----------------------------------------------------------------------------
(* C14 *)

HasDelimiter(s) == Contains(s, ThinkOpen) \/ Contains(s, ThinkClose)

\* C14: clean_response applied twice gives what it gives applied once, for
\* every reply, nested, overlapping or unbalanced delimiters included; a reply
\* without delimiters comes back trimmed and otherwise unchanged.
C14_CleanIdempotent ==
    [][TurnCompleted =>
          /\ clean_response(clean_response(RawReply)) = clean_response(RawReply)
          /\ ~HasDelimiter(RawReply) => clean_response(RawReply) = Strip(RawReply)]_vars

----------------------------------------------------------------------------
(* C15 *)

\* the list the catalog holds for a level, the Beginner list for no match
CatalogList(lvl) ==
    IF Lower(lvl) = "intermediate" THEN IntermediateScenes
    ELSE IF Lower(lvl) = "advanced" THEN AdvancedScenes
    ELSE BeginnerScenes

Elements(seq) == {seq[i] : i \in 1..Len(seq)}

\* C15: get_scene_options gives, for every level text, the list of the key
\* the text matches ignoring case, three scenes in the catalog's order, and
\* the Beginner list when the text matches no key; it gives a list for every
\* text, and the scene chosen is one of that list.
C15_ScenesForLevel ==
    /\ probe.options # None =>
           /\ Val(probe.options) = CatalogList(probe.level)
           /\ Len(Val(probe.options)) = Len(BeginnerScenes)
           /\ Cardinality(Elements(Val(probe.options))) = Len(BeginnerScenes)
           /\ Lower(probe.level) \notin {"beginner", "intermediate", "advanced"} =>
                  Val(probe.options) = BeginnerScenes
    /\ probe.choice # None =>
           Val(probe.choice) \in Elements(CatalogList(probe.level))

\* the text "ADVANCED" is given the Advanced list
C15_Witness ==
    /\ probe.level = "ADVANCED"
    /\ probe.options =
           Some(<< "You're negotiating a business deal.",
                   "You're discussing a news article with a friend.",
                   "You're giving a presentation at work." >>)
    /\ probe.choice = Some("You're discussing a news article with a friend.")

----------------------------------------------------------------------------
(* C17 *)

\* the calls of one run of main(): none, the response call alone, or the
\* response call and then the correction call, issued once the first returned
C17_CallOrder ==
    /\ Len(llm_log') <= 2
    /\ Len(llm_log') >= 1 =>
           llm_log'[1].prompt =
               ResponsePrompt(SentText, Val(target_lang), Val(scene))
    /\ Len(llm_log') = 2 =>
           /\ llm_log'[1].ok
           /\ llm_log'[2].prompt =
                  CorrectionPrompt(SentText, Val(target_lang), Val(native_lang))

\* the lines a step appended are none or the three lines of the turn
C17_WholeTurn ==
    \/ chat_history' = chat_history
    \/ ThreeLinesAppended

C17_Step ==
    (SendPressed /\ InputNotBlank) =>
        /\ C17_CallOrder
        /\ RowsWritten # 0 => CorrectionReturned /\ ThreeLinesAppended
        /\ C17_WholeTurn

\* C17: in a turn the response call completes before the correction call is
\* issued, a row is written only when both calls have returned, the three
\* lines are appended only then, and no step leaves part of a turn: lines
\* short of the three, or a row without its lines.  (Stated for the turns
\* with a non-blank input, so that a violation does not rest on C3.)
C17_TurnOrder == [][C17_Step]_vars

----------------------------------------------------------------------------
(* C18 *)

C18_SceneFromCatalog ==
    stage \in {"chat", "review"} =>
        /\ NonEmpty(scene)
        /\ NonEmpty(level)
        /\ \E k \in 1..3 : Val(scene) = get_scene_options(Val(level))[k]

C18_SceneFixed ==
    (stage \in {"chat", "review"} /\ stage' \in {"chat", "review"}) =>
        scene' = scene /\ level' = level

\* C18: in Chat and Review the scene is one of the three scenes of the stored
\* level, and it stays the same from the scene submit to the reset.
C18_SceneOfLevel == []C18_SceneFromCatalog /\ [][C18_SceneFixed]_vars

----------------------------------------------------------------------------
(* C19 *)

\* C19: in every reachable state a user action is enabled, and the way back
\* to Setup is open: SceneSelection can go to Chat, Chat can go to Review by
\* "exit", Review can go to Setup by the reset.
C19_NoTerminalStage ==
    /\ ENABLED Next
    /\ stage \in {"setup", "scene_selection", "chat", "review"}
    /\ stage = "scene_selection" =>
           ENABLED ((\E k \in 1..3 : StartChatting(k)) /\ stage' = "chat")
    /\ stage = "chat" => ENABLED (Send("exit") /\ stage' = "review")
    /\ stage = "review" => ENABLED (StartOver /\ stage' = "setup")

\* Review after a Start Over that was stopped with the scene removed, a row
\* in the table
C19_Witness ==
    /\ stage = "review"
    /\ last_op = "reset_cut"
    /\ scene = None
    /\ Len(mistakes) = 1

====
